---- MODULE Spec2Model ----
(***************************************************************************)
(* Model of scripts/list_all.py: the directory-snapshot serializer.        *)
(*                                                                         *)
(* A string is a sequence of tokens; a token is a TLA+ string standing for *)
(* one character or for one literal of the source ("// File: ").  NL is    *)
(* the newline character.  A name is a sequence of characters, a path a    *)
(* sequence of names (the root directory is the empty path).               *)
(***************************************************************************)
EXTENDS Integers, Sequences, FiniteSets, TLC

(* ------------------------------ bounds --------------------------------- *)

\* Largest number of entries below the root of a modelled directory tree.
MaxEntries == 3

\* Largest nesting depth of an entry below the root.
MaxDepth == 3

\* Largest number of directories whose listing fails.
MaxDenied == 1

\* Largest number of characters of a file handed to read_file on its own.
MaxRaw == 5

(* ------------------------- characters and names ------------------------ *)

NL == "\n"
CR == "\r"
\* The three box-drawing literals of get_hierarchy, written in ASCII:
\* the branch marker (U+251C U+2500 U+2500 and a space), the terminal
\* marker (U+2514 ...) and the continuation bar (U+2502 and three spaces).
BRANCH == "|-- "
LAST == "+-- "
BAR == "|   "
SLASH == "/"
BACKSLASH == "\\"
FILEHDR == "// File: "
ERRACC == "Error accessing "
COLON == ": "
CAUSE == "[Errno]"

\* Names of directory entries, and the exclusion lists tried: none, and
\* one that matches the name "ab" and not the name "b".
Names == { <<"b">>, <<"a", "b">> }
ExcludeSets == { {}, { <<"a">>, <<"b", "b">> } }

\* The path argument handed to get_folder_content ("../p"), and os.sep.
RootPath == <<".", ".", SLASH, "p">>
Seps == { SLASH, BACKSLASH }

\* Code point order of the characters that occur in names.
Ord(c) == CASE c = "a" -> 97 [] c = "b" -> 98 [] OTHER -> 0

\* s < t in Python's str ordering.
RECURSIVE StrLess(_, _)
StrLess(s, t) ==
    IF t = <<>> THEN FALSE
    ELSE IF s = <<>> THEN TRUE
    ELSE IF Ord(Head(s)) # Ord(Head(t)) THEN Ord(Head(s)) < Ord(Head(t))
    ELSE StrLess(Tail(s), Tail(t))

\* Python's `s in t` on strings.
IsSubstr(s, t) ==
    \E i \in 0..(Len(t) - Len(s)) : SubSeq(t, i + 1, i + Len(s)) = s

\* any(exclude in item for exclude in excludes)
IsExcluded(item, excl) == \E e \in excl : IsSubstr(e, item)

\* The elements of a sequence that satisfy a test, in order.
RECURSIVE SelectNames(_, _, _)
SelectNames(seq, excl, keepExcluded) ==
    IF seq = <<>> THEN <<>>
    ELSE LET rest == SelectNames(Tail(seq), excl, keepExcluded)
         IN IF IsExcluded(Head(seq), excl) = keepExcluded
            THEN <<Head(seq)>> \o rest ELSE rest

\* Concatenation of a sequence of strings.
RECURSIVE Concat(_)
Concat(ss) == IF ss = <<>> THEN <<>> ELSE Head(ss) \o Concat(Tail(ss))

\* sep.join(list)
RECURSIVE Join(_, _)
Join(list, sep) ==
    IF list = <<>> THEN <<>>
    ELSE IF Len(list) = 1 THEN list[1]
    ELSE list[1] \o <<sep>> \o Join(Tail(list), sep)

\* n copies of a token ("\n" * 5).
Times(tok, n) == [i \in 1..n |-> tok]

(* ------------------------------ file system ---------------------------- *)

\* Kinds of entries: a regular file, a directory, a symbolic link to a
\* directory.
Kinds == { "file", "dir", "link" }

\* A directory that can hold entries the program can see.
CanHold(k) == k \in { "dir", "link" }

\* The trees that extend t by one entry.
Extensions(t) ==
    { (e[1] :> e[2]) @@ t :
        e \in { q \in { p \o <<n>> : p \in { r \in DOMAIN t : CanHold(t[r]) /\ Len(r) < MaxDepth },
                                    n \in Names } : q \notin DOMAIN t } \X Kinds }

\* The directory trees with at most k entries below the root.
RECURSIVE Trees(_)
Trees(k) ==
    IF k = 0 THEN { (<<>> :> "dir") }
    ELSE LET S == Trees(k - 1)
         IN S \cup UNION { Extensions(s) : s \in S }

VARIABLES
    fs,         \* the directory tree: path -> kind
    denied,     \* the directories whose listing fails (permission denied)
    excludes,   \* the exclusion substrings
    sep,        \* os.sep of the platform
    descending, \* whether the directory listing comes in descending order
    pc,         \* position in get_folder_content
    result,     \* the string under construction
    hierarchy,  \* what the get_hierarchy call returned
    files,      \* the list returned by get_files_recursive
    reads,      \* what each read_file call returned, in call order
    failed,     \* the indices of files whose read failed
    raw,        \* read_file on its own: the characters of the file
    rpc,        \* read_file on its own: position in read_file
    pending,    \* read_file on its own: the lines not yet iterated
    content,    \* read_file on its own: the list `content`
    ret         \* read_file on its own: the returned string

treeVars == <<fs, denied, excludes, sep, descending>>
docVars == <<pc, result, hierarchy, files, reads, failed>>
readVars == <<raw, rpc, pending, content, ret>>
vars == <<treeVars, docVars, readVars>>

(* ------------------------------- listing ------------------------------- *)

\* The names of the entries of directory p.
Children(p) ==
    { q[Len(q)] : q \in { r \in DOMAIN fs :
                            Len(r) = Len(p) + 1 /\ SubSeq(r, 1, Len(p)) = p } }

\* The names of a set in ascending order.
RECURSIVE SortAsc(_)
SortAsc(S) ==
    IF S = {} THEN <<>>
    ELSE LET m == CHOOSE x \in S : \A y \in S \ {x} : StrLess(x, y)
         IN <<m>> \o SortAsc(S \ {m})

Reverse(seq) == [i \in 1..Len(seq) |-> seq[Len(seq) + 1 - i]]

Range(seq) == { seq[i] : i \in 1..Len(seq) }

\* os.listdir(path) and the order of os.scandir: an order the file system
\* chooses, here ascending or descending.
listdir(p) ==
    IF descending THEN Reverse(SortAsc(Children(p))) ELSE SortAsc(Children(p))

\* sorted(list)
sorted(seq) == SortAsc(Range(seq))

\* os.path.isdir(full_path), and entry.is_dir() in os.walk: both follow
\* symbolic links.
isdir(p) == fs[p] \in { "dir", "link" }

\* os.path.islink(new_path) in os.walk
islink(p) == fs[p] = "link"

\* Whether os.listdir(path) / os.scandir(path) succeeds when the listings
\* of the directories in deny fail.
Listable(deny, p) == p \notin deny

\* os.path.join(path, item) for the entry at model path p.
RECURSIVE PathStr(_)
PathStr(p) ==
    IF p = <<>> THEN RootPath
    ELSE PathStr(SubSeq(p, 1, Len(p) - 1)) \o <<sep>> \o p[Len(p)]

\* os.path.relpath(full_path, path): the components below the root, joined
\* by os.sep.
RelPath(p) == Join(p, sep)

\* The characters os.path.basename splits at: "/" on POSIX, both on Windows.
SepChars == IF sep = BACKSLASH THEN { SLASH, BACKSLASH } ELSE { SLASH }

\* os.path.basename(path)
RECURSIVE basename(_)
basename(s) ==
    IF \E i \in 1..Len(s) : s[i] \in SepChars
    THEN basename(Tail(s)) ELSE s

(* ----------------------------- get_hierarchy --------------------------- *)

\* Lines 49 and 54: the sorted listing without the excluded names.
Items(path, excl) == SelectNames(sorted(listdir(path)), excl, FALSE)

\* Mutant of FileMarker: the last position taken to be n.
FileMarkerOffByOne(index, n) == IF index = n THEN LAST ELSE BRANCH

\* Lines 65-68: the marker of a file at 0-based position index of n items.
FileMarker(index, n) == IF index = n - 1 THEN LAST ELSE BRANCH

\* Mutant of ErrorLine: the path left out of the message.
ErrorLineNoPath(path) == <<ERRACC, COLON, CAUSE>>

\* Line 51: the error line.
ErrorLine(path) == <<ERRACC>> \o PathStr(path) \o <<COLON, CAUSE>>

RECURSIVE hierarchy_under(_, _, _, _)
\* Lines 56-68: what one item appends to the list `hierarchy`.
Appended(deny, path, prefix, excl, items, i) ==
    LET item == items[i]
        full_path == path \o <<item>>
    IN IF isdir(full_path)
       THEN << prefix \o <<BRANCH>> \o item \o <<SLASH>>,
               hierarchy_under(deny, full_path, prefix \o <<BAR>>, excl) >>
       ELSE << prefix \o <<FileMarker(i - 1, Len(items))>> \o item >>

\* get_hierarchy(path, prefix, excludes) when the listings of the
\* directories in deny fail.
hierarchy_under(deny, path, prefix, excl) ==
    IF ~Listable(deny, path) THEN Join(<<ErrorLine(path)>>, NL)
    ELSE LET items == Items(path, excl)
         IN Join(Concat([i \in 1..Len(items) |->
                           Appended(deny, path, prefix, excl, items, i)]), NL)

get_hierarchy(path, prefix, excl) == hierarchy_under(denied, path, prefix, excl)

(* -------------------------- get_files_recursive ------------------------ *)

\* The names of a listing that are (or are not) directories.
RECURSIVE SelectDirs(_, _, _)
SelectDirs(top, seq, wantDir) ==
    IF seq = <<>> THEN <<>>
    ELSE LET rest == SelectDirs(top, Tail(seq), wantDir)
         IN IF isdir(top \o <<Head(seq)>>) = wantDir
            THEN <<Head(seq)>> \o rest ELSE rest

\* Mutant of PrunedDirs: `dirs` is left as os.walk filled it.
PrunedDirsUnfiltered(top, excl) == SelectDirs(top, listdir(top), TRUE)

\* Line 77: the directories os.walk is left to descend into.
PrunedDirs(top, excl) == SelectNames(SelectDirs(top, listdir(top), TRUE), excl, FALSE)

\* Lines 78-82: the relative paths appended for one directory.
FilesHere(top, excl) ==
    LET keep == SelectNames(SelectDirs(top, listdir(top), FALSE), excl, FALSE)
    IN [i \in 1..Len(keep) |-> RelPath(top \o <<keep[i]>>)]

\* Whether os.walk (followlinks=False) descends into a directory of `dirs`.
Descends(p) == ~islink(p)

\* Lines 76-82: os.walk top-down from `top`, with the loop body applied.
RECURSIVE WalkFrom(_, _)
WalkFrom(top, excl) ==
    IF ~Listable(denied, top) THEN <<>>
    ELSE LET dirs == PrunedDirs(top, excl)
         IN FilesHere(top, excl) \o
            Concat([i \in 1..Len(dirs) |->
                      IF Descends(top \o <<dirs[i]>>)
                      THEN WalkFrom(top \o <<dirs[i]>>, excl) ELSE <<>>])

get_files_recursive(excl) == WalkFrom(<<>>, excl)

(* -------------------------------- read_file ---------------------------- *)

\* The characters of the files read on their own.
Chars == { " ", SLASH, "x", CR, NL }

\* The characters str.strip() removes.
Whitespace == { " ", "\t", CR, NL }

\* Line 32: text mode with universal newlines: "\r\n" and "\r" read as "\n".
RECURSIVE Decode(_)
Decode(bytes) ==
    IF bytes = <<>> THEN <<>>
    ELSE IF Head(bytes) = CR
         THEN <<NL>> \o Decode(IF Len(bytes) >= 2 /\ bytes[2] = NL
                               THEN Tail(Tail(bytes)) ELSE Tail(bytes))
         ELSE <<Head(bytes)>> \o Decode(Tail(bytes))

\* The position of the first "\n" of a text, 0 when there is none.
FirstNL(text) ==
    IF \E i \in 1..Len(text) : text[i] = NL
    THEN CHOOSE i \in 1..Len(text) :
            text[i] = NL /\ \A j \in 1..(i - 1) : text[j] # NL
    ELSE 0

\* Line 33: the lines a text file iterates over, each with its "\n".
RECURSIVE SplitLines(_)
SplitLines(text) ==
    IF text = <<>> THEN <<>>
    ELSE LET k == FirstNL(text)
         IN IF k = 0 THEN <<text>>
            ELSE <<SubSeq(text, 1, k)>> \o SplitLines(SubSeq(text, k + 1, Len(text)))

RECURSIVE lstrip(_)
lstrip(s) == IF s # <<>> /\ Head(s) \in Whitespace THEN lstrip(Tail(s)) ELSE s

RECURSIVE rstrip(_)
rstrip(s) ==
    IF s # <<>> /\ s[Len(s)] \in Whitespace
    THEN rstrip(SubSeq(s, 1, Len(s) - 1)) ELSE s

\* line.strip()
strip(s) == rstrip(lstrip(s))

startswith(s, prefix) ==
    Len(s) >= Len(prefix) /\ SubSeq(s, 1, Len(prefix)) = prefix

\* Mutant of Dropped: the test made on the line as read, not stripped.
DroppedUnstripped(line) == line = <<>> \/ startswith(line, <<SLASH, SLASH>>)

\* Lines 34-35: the test that makes the loop skip a line.
Dropped(line) ==
    LET stripped_line == strip(line)
    IN stripped_line = <<>> \/ startswith(stripped_line, <<SLASH, SLASH>>)

\* Lines 33-37: the list `content` after the loop has seen `lines`.
RECURSIVE KeptLines(_)
KeptLines(lines) ==
    IF lines = <<>> THEN <<>>
    ELSE (IF Dropped(Head(lines)) THEN <<>> ELSE <<Head(lines)>>)
         \o KeptLines(Tail(lines))

\* Mutant of OnReadError: the exception is not caught.
OnReadErrorReraised == [raised |-> TRUE, value |-> <<>>]

\* Lines 39-41: the except branch returns "".
OnReadError == [raised |-> FALSE, value |-> <<>>]

\* read_file(path) on a file of the given bytes; ok is whether open and
\* decoding succeed.
read_file(bytes, ok) ==
    IF ok
    THEN [raised |-> FALSE, value |-> Concat(KeptLines(SplitLines(Decode(bytes))))]
    ELSE OnReadError

(* --------------------------- get_folder_content ------------------------ *)

\* The bytes of the file at model path p: a comment line ended by "\r\n",
\* then a line that spells the path.
Content(p) == <<SLASH, SLASH, " ">> \o p[Len(p)] \o <<CR, NL>> \o Concat(p) \o <<NL>>

\* The components of a path string, split at the separators of the platform.
RECURSIVE SplitPath(_)
SplitPath(s) ==
    IF \E i \in 1..Len(s) : s[i] \in SepChars
    THEN LET k == CHOOSE i \in 1..Len(s) :
                    s[i] \in SepChars /\ \A j \in 1..(i - 1) : s[j] \notin SepChars
         IN <<SubSeq(s, 1, k - 1)>> \o SplitPath(SubSeq(s, k + 1, Len(s)))
    ELSE <<s>>

\* Line 95: whether os.path.join(path, file) names a regular file.
Openable(file) ==
    /\ SplitPath(file) \in DOMAIN fs
    /\ fs[SplitPath(file)] = "file"

\* Mutant of BlockText: four newlines after the content.
BlockTextFourNewlines(file, text) ==
    <<FILEHDR>> \o basename(RootPath) \o <<BACKSLASH>> \o file
        \o Times(NL, 2) \o text \o Times(NL, 4)

\* Lines 93-96: the block of one file.
BlockText(file, text) ==
    <<FILEHDR>> \o basename(RootPath) \o <<BACKSLASH>> \o file
        \o Times(NL, 2) \o text \o Times(NL, 5)

Init ==
    /\ fs \in Trees(MaxEntries)
    /\ denied \in { D \in SUBSET { p \in DOMAIN fs : fs[p] # "file" } :
                       Cardinality(D) <= MaxDenied }
    /\ excludes \in ExcludeSets
    /\ sep \in Seps
    /\ descending \in BOOLEAN
    /\ pc = "start"
    /\ result = <<>>
    /\ hierarchy = <<>>
    /\ files = <<>>
    /\ reads = <<>>
    /\ failed = {}
    /\ raw = <<>>
    /\ rpc = "idle"
    /\ pending = <<>>
    /\ content = <<>>
    /\ ret = <<>>

\* Lines 88-90: the root label, the hierarchy and the separator.
Header ==
    /\ pc = "start"
    /\ hierarchy' = get_hierarchy(<<>>, <<>>, excludes)
    /\ result' = basename(RootPath) \o <<SLASH, NL>> \o hierarchy' \o Times(NL, 5)
    /\ pc' = "rendered"
    /\ UNCHANGED <<treeVars, files, reads, failed, readVars>>

\* Line 92: the walk, materialized before the loop starts.
Walk ==
    /\ pc = "rendered"
    /\ files' = get_files_recursive(excludes)
    /\ pc' = "blocks"
    /\ UNCHANGED <<treeVars, result, hierarchy, reads, failed, readVars>>

\* Lines 92-96: one iteration of the loop over the walked files.
Block ==
    /\ pc = "blocks"
    /\ Len(reads) < Len(files)
    /\ \E ok \in (IF Openable(files[Len(reads) + 1]) THEN BOOLEAN ELSE {FALSE}) :
         LET i == Len(reads) + 1
             file == files[i]
             r == read_file(IF ok THEN Content(SplitPath(file)) ELSE <<>>, ok)
         IN IF r.raised
            THEN /\ pc' = "raised"
                 /\ UNCHANGED <<result, reads, failed>>
            ELSE /\ result' = result \o BlockText(file, r.value)
                 /\ reads' = Append(reads, r.value)
                 /\ failed' = IF ok THEN failed ELSE failed \cup {i}
                 /\ pc' = pc
    /\ UNCHANGED <<treeVars, hierarchy, files, readVars>>

\* Line 98
Return ==
    /\ pc = "blocks"
    /\ Len(reads) = Len(files)
    /\ pc' = "done"
    /\ UNCHANGED <<treeVars, result, hierarchy, files, reads, failed, readVars>>

Next == Header \/ Walk \/ Block \/ Return

Spec == Init /\ [][Next]_vars

(* ----------------------- read_file, step by step ----------------------- *)

RECURSIVE SeqsUpTo(_)
SeqsUpTo(n) ==
    IF n = 0 THEN { <<>> }
    ELSE LET S == SeqsUpTo(n - 1)
         IN S \cup { Append(s, c) : s \in { t \in S : Len(t) = n - 1 }, c \in Chars }

InitRead ==
    /\ fs = (<<>> :> "dir")
    /\ denied = {}
    /\ excludes = {}
    /\ sep = SLASH
    /\ descending = FALSE
    /\ pc = "idle"
    /\ result = <<>>
    /\ hierarchy = <<>>
    /\ files = <<>>
    /\ reads = <<>>
    /\ failed = {}
    /\ raw \in SeqsUpTo(MaxRaw)
    /\ rpc = "open"
    /\ pending = <<>>
    /\ content = <<>>
    /\ ret = <<>>

\* Line 32: open the file; on failure lines 39-41 return.
ReadOpen ==
    /\ rpc = "open"
    /\ \E ok \in BOOLEAN :
         IF ok
         THEN /\ pending' = SplitLines(Decode(raw))
              /\ rpc' = "loop"
              /\ ret' = ret
         ELSE /\ rpc' = IF OnReadError.raised THEN "raised" ELSE "failed"
              /\ ret' = OnReadError.value
              /\ pending' = pending
    /\ UNCHANGED <<treeVars, docVars, raw, content>>

\* Lines 33-37: one iteration of the loop over the lines.
ReadLine ==
    /\ rpc = "loop"
    /\ pending # <<>>
    /\ content' = content \o KeptLines(<<Head(pending)>>)
    /\ pending' = Tail(pending)
    /\ UNCHANGED <<treeVars, docVars, raw, rpc, ret>>

\* Lines 33 and 39-41: reading on fails while the loop runs (a decode
\* error further into the file); the lines kept so far are discarded.
ReadError ==
    /\ rpc = "loop"
    /\ pending # <<>>
    /\ rpc' = IF OnReadError.raised THEN "raised" ELSE "failed"
    /\ ret' = OnReadError.value
    /\ UNCHANGED <<treeVars, docVars, raw, pending, content>>

\* Line 38: the lines of `content` joined with nothing between them.
ReadReturn ==
    /\ rpc = "loop"
    /\ pending = <<>>
    /\ ret' = Concat(content)
    /\ rpc' = "returned"
    /\ UNCHANGED <<treeVars, docVars, raw, pending, content>>

NextRead == ReadOpen \/ ReadLine \/ ReadError \/ ReadReturn

SpecRead == InitRead /\ [][NextRead]_vars

(* ------------------------ reading the output back ---------------------- *)

\* str.split("\n")
RECURSIVE SplitNL(_)
SplitNL(s) ==
    LET k == FirstNL(s)
    IN IF k = 0 THEN <<s>>
       ELSE <<SubSeq(s, 1, k - 1)>> \o SplitNL(SubSeq(s, k + 1, Len(s)))

\* The lines of the rendered hierarchy.
HLines == SplitNL(hierarchy)

\* The number of continuation bars a line starts with.
RECURSIVE Depth(_)
Depth(l) == IF l # <<>> /\ Head(l) = BAR THEN 1 + Depth(Tail(l)) ELSE 0

\* A line that names an entry: bars, a marker, a name.
IsEntryLine(l) == Len(l) >= Depth(l) + 2 /\ l[Depth(l) + 1] \in { BRANCH, LAST }

IsDirLine(l) == l[Len(l)] = SLASH

NameOf(l) == SubSeq(l, Depth(l) + 2, IF IsDirLine(l) THEN Len(l) - 1 ELSE Len(l))

\* The entries the lines name, each with the path its rendered ancestors
\* give it: a line with k bars lies below the first k names of the entry
\* line before it.
RECURSIVE Parse(_, _)
Parse(lines, cur) ==
    IF lines = <<>> THEN <<>>
    ELSE LET l == Head(lines)
         IN IF ~IsEntryLine(l) THEN Parse(Tail(lines), cur)
            ELSE LET path == SubSeq(cur, 1, Depth(l)) \o <<NameOf(l)>>
                 IN <<[path |-> path, dir |-> IsDirLine(l), marker |-> l[Depth(l) + 1]]>>
                    \o Parse(Tail(lines), path)

Entries == Parse(HLines, <<>>)
EntryPaths == [i \in 1..Len(Entries) |-> Entries[i].path]
RenderedFiles == { Entries[i].path : i \in { j \in 1..Len(Entries) : ~Entries[j].dir } }
WalkedFiles == { SplitPath(files[i]) : i \in 1..Len(files) }

(* --------------------------- the tree, declared ------------------------ *)

IsProperPrefix(d, q) == Len(d) < Len(q) /\ SubSeq(q, 1, Len(d)) = d

Parent(p) == SubSeq(p, 1, Len(p) - 1)

\* An entry the renderer has to show: no name on its path is excluded and
\* the listing of none of its ancestors fails.
Shown(p) ==
    /\ p # <<>>
    /\ \A i \in 1..Len(p) : ~IsExcluded(p[i], excludes)
    /\ \A d \in denied : ~IsProperPrefix(d, p)

ShownEntries == { p \in DOMAIN fs : Shown(p) }

\* Pre-order: a directory before its contents, siblings by name.
RECURSIVE PathLess(_, _)
PathLess(p, q) ==
    IF q = <<>> THEN FALSE
    ELSE IF p = <<>> THEN TRUE
    ELSE IF Head(p) # Head(q) THEN StrLess(Head(p), Head(q))
    ELSE PathLess(Tail(p), Tail(q))

RECURSIVE SortPaths(_)
SortPaths(S) ==
    IF S = {} THEN <<>>
    ELSE LET m == CHOOSE x \in S : \A y \in S \ {x} : PathLess(x, y)
         IN <<m>> \o SortPaths(S \ {m})

PreOrder == SortPaths(ShownEntries)

\* The last entry of the listing of its directory, after filtering.
IsLastShown(p) ==
    \A q \in ShownEntries :
        (Parent(q) = Parent(p) /\ q # p) => StrLess(q[Len(q)], p[Len(p)])

\* A directory below the root whose name matches an exclusion.
ExcludedDir(d) == d # <<>> /\ isdir(d) /\ IsExcluded(d[Len(d)], excludes)

NoDuplicates(seq) == \A i, j \in 1..Len(seq) : seq[i] = seq[j] => i = j

(* --------------------------------- claims ------------------------------ *)

\* C1: no descendant of a directory whose name contains an exclusion
\* substring appears in the rendered hierarchy nor in the walked files.
Pruning ==
    pc = "done" =>
        \A d \in { e \in DOMAIN fs : ExcludedDir(e) } :
            /\ \A i \in 1..Len(Entries) : ~IsProperPrefix(d, Entries[i].path)
            /\ \A q \in WalkedFiles : ~IsProperPrefix(d, q)

\* C1 witness: an excluded directory, itself not below an excluded one,
\* holds a file two levels down, and no name below the directory matches
\* an exclusion.
PruningWitness ==
    /\ pc = "done"
    /\ denied = {}
    /\ \E d \in { e \in DOMAIN fs : ExcludedDir(e) } :
          /\ ~ExcludedDir(Parent(d))
          /\ \E q \in DOMAIN fs :
                /\ IsProperPrefix(d, q)
                /\ Len(q) = Len(d) + 2
                /\ fs[Parent(q)] = "dir"
                /\ fs[q] = "file"
                /\ \A i \in (Len(d) + 1)..Len(q) : ~IsExcluded(q[i], excludes)

\* C2: the files named in the hierarchy are exactly the walked files.
RendererWalkerAgree == pc = "done" => RenderedFiles = WalkedFiles

\* C3: with no exclusions (and no failing listing) the walker returns each
\* regular file of the tree exactly once and the hierarchy names exactly
\* the entries of the tree.
CompleteWithoutExclusions ==
    (pc = "done" /\ excludes = {} /\ denied = {}) =>
        /\ NoDuplicates(files)
        /\ WalkedFiles = { p \in DOMAIN fs : fs[p] = "file" }
        /\ Range(EntryPaths) = DOMAIN fs \ { <<>> }

\* C4: the entry lines are the shown entries in pre-order, each below the
\* bars of its depth; a file carries the terminal marker exactly when it is
\* the last entry of its listing, a directory always the branch marker and
\* a trailing "/".
BranchMarkerRule ==
    pc = "rendered" =>
        /\ EntryPaths = PreOrder
        /\ \A i \in 1..Len(Entries) :
              /\ Entries[i].dir = isdir(Entries[i].path)
              /\ Entries[i].marker =
                    IF ~isdir(Entries[i].path) /\ IsLastShown(Entries[i].path)
                    THEN LAST ELSE BRANCH

\* C4 witness: a directory ends a listing, a file ends another and a file
\* stands before other entries.
BranchMarkerWitness ==
    /\ pc = "rendered"
    /\ \E p, q, r \in ShownEntries :
          /\ isdir(p) /\ IsLastShown(p)
          /\ ~isdir(q) /\ IsLastShown(q)
          /\ ~isdir(r) /\ ~IsLastShown(r)

\* The error line of directory d, as the claim words it.
ExpectedError(d) ==
    <<ERRACC>> \o RootPath \o Concat([i \in 1..Len(d) |-> <<sep>> \o d[i]])
        \o <<COLON, CAUSE>>

\* The listing of d is attempted: d is shown, or is the root.
Attempted(d) == d = <<>> \/ Shown(d)

\* C7: a failing listing of D puts exactly the one error line where the
\* rendering of D would stand and leaves every other line as it is when
\* the listing of D succeeds; for the root the hierarchy is the error line
\* and the walker yields no file.
ListingFailureLocal ==
    /\ pc = "rendered" =>
          \A D \in { d \in denied : Attempted(d) } :
              LET others == denied \ {D}
                  H0 == SplitNL(hierarchy_under(others, <<>>, <<>>, excludes))
                  sub == SplitNL(hierarchy_under(others, D, Times(BAR, Len(D)), excludes))
              IN IF D = <<>> THEN hierarchy = ExpectedError(D)
                 ELSE \E i \in 1..(Len(HLines) - 1) :
                         /\ HLines[i] = Times(BAR, Len(D) - 1) \o <<BRANCH>>
                                           \o D[Len(D)] \o <<SLASH>>
                         /\ HLines[i + 1] = ExpectedError(D)
                         /\ H0 = SubSeq(HLines, 1, i) \o sub
                                    \o SubSeq(HLines, i + 2, Len(HLines))
    /\ (pc = "done" /\ <<>> \in denied) =>
          (hierarchy = ExpectedError(<<>>) /\ files = <<>>)

\* C7 witness: the listing of a directory with contents fails while a
\* sibling after it is rendered.
ListingFailureWitness ==
    /\ pc = "rendered"
    /\ \E D \in denied :
          /\ Shown(D)
          /\ \E q \in DOMAIN fs : Parent(q) = D
          /\ \E r \in ShownEntries : Parent(r) = Parent(D) /\ StrLess(D[Len(D)], r[Len(r)])

\* C10: with no failing listing the lines of the hierarchy are the shown
\* entries in pre-order, one line each, and no other line.
OneLinePerEntry ==
    (pc = "rendered" /\ denied = {}) =>
        IF PreOrder = <<>> THEN hierarchy = <<>>
        ELSE /\ Len(HLines) = Len(PreOrder)
             /\ \A j \in 1..Len(HLines) : IsEntryLine(HLines[j])
             /\ EntryPaths = PreOrder

\* The five-newline separator.
FiveNL == <<NL, NL, NL, NL, NL>>

\* C8: the document is the root label, the hierarchy, five newlines, then
\* one block per walked file in order: header, two newlines, what
\* read_file returned, five newlines.
DocumentLayout ==
    pc = "done" =>
        /\ Len(reads) = Len(files)
        /\ result =
              <<"p", SLASH, NL>> \o hierarchy \o FiveNL
              \o Concat([i \in 1..Len(files) |->
                           <<FILEHDR, "p", BACKSLASH>> \o files[i] \o <<NL, NL>>
                               \o reads[i] \o FiveNL])

\* C8 witness: a document with a hierarchy and at least two blocks.
DocumentLayoutWitness ==
    pc = "done" /\ hierarchy # <<>> /\ Len(files) >= 2

\* C9: every header names its file with "\" between all components.
HeadersUseBackslash ==
    pc = "done" =>
        \A i \in 1..Len(files) :
            <<FILEHDR>> \o Join(<<(<<"p">>)>> \o SplitPath(files[i]), BACKSLASH)
                \in Range(SplitNL(result))

\* C6: the build never raises; a file whose read fails gets its header
\* and an empty content, every other file its header and its own content.
ReadFailureIsolated ==
    /\ pc # "raised"
    /\ pc = "done" =>
          result =
              <<"p", SLASH, NL>> \o hierarchy \o FiveNL
              \o Concat([i \in 1..Len(files) |->
                           <<FILEHDR, "p", BACKSLASH>> \o files[i] \o <<NL, NL>>
                               \o (IF i \in failed THEN <<>>
                                   ELSE Concat(SplitPath(files[i])) \o <<NL>>)
                               \o FiveNL])

\* C6 witness: of two walked files the read of the first fails.
ReadFailureWitness ==
    pc = "done" /\ Len(files) = 2 /\ failed = {1}

(* ---------------------------- claims on read_file ---------------------- *)

\* The position of the first line terminator character, 0 if none.
FirstBreak(s) ==
    IF \E i \in 1..Len(s) : s[i] \in { CR, NL }
    THEN CHOOSE i \in 1..Len(s) :
            s[i] \in { CR, NL } /\ \A j \in 1..(i - 1) : s[j] \notin { CR, NL }
    ELSE 0

\* The physical lines of a file: body and terminator ("\n", "\r\n", "\r",
\* or none on an unterminated last line).
RECURSIVE PhysicalLines(_)
PhysicalLines(s) ==
    IF s = <<>> THEN <<>>
    ELSE LET k == FirstBreak(s)
         IN IF k = 0 THEN <<[body |-> s, term |-> <<>>]>>
            ELSE LET e == IF s[k] = CR /\ k < Len(s) /\ s[k + 1] = NL
                          THEN k + 1 ELSE k
                 IN <<[body |-> SubSeq(s, 1, k - 1), term |-> SubSeq(s, k, e)]>>
                    \o PhysicalLines(SubSeq(s, e + 1, Len(s)))

Blank(body) == \A i \in 1..Len(body) : body[i] \in { " ", "\t" }

IsComment(body) ==
    \E i \in 1..(Len(body) - 1) :
        /\ body[i] = SLASH /\ body[i + 1] = SLASH
        /\ \A j \in 1..(i - 1) : body[j] \in { " ", "\t" }

KeptPhysical(l) == ~Blank(l.body) /\ ~IsComment(l.body)

\* The kept physical lines, each as body and terminator, the terminator
\* either as in the file or read as "\n".
RECURSIVE KeptText(_, _)
KeptText(ls, original) ==
    IF ls = <<>> THEN <<>>
    ELSE (IF KeptPhysical(Head(ls))
          THEN Head(ls).body \o (IF original \/ Head(ls).term = <<>>
                                 THEN Head(ls).term ELSE <<NL>>)
          ELSE <<>>)
         \o KeptText(Tail(ls), original)

\* C5 as stated: the kept lines with their original line terminators.
KeepsOriginalTerminators ==
    rpc = "returned" => ret = KeptText(PhysicalLines(raw), TRUE)

\* C5 as amended: the kept lines in order, each with its characters up to
\* the terminator unchanged and its terminator, if any, as "\n".
LineNormalization ==
    rpc = "returned" => ret = KeptText(PhysicalLines(raw), FALSE)

\* C5 witness: a blank or comment line is dropped and a line is kept.
LineNormalizationWitness ==
    /\ rpc = "returned"
    /\ ret # <<>>
    /\ \E i \in 1..Len(PhysicalLines(raw)) : ~KeptPhysical(PhysicalLines(raw)[i])
====
